---- MODULE Spec2Model ----
(***************************************************************************)
(* A model of advanced-vector/vector.h: RawMemory<T>, a block of raw       *)
(* storage, and Vector<T>, which constructs, relocates and destroys the    *)
(* elements that live in it.                                               *)
(*                                                                         *)
(* The heap is a finite set of blocks; a block is a sequence of slots and  *)
(* a slot is either Raw (no object lives there) or holds the value of a    *)
(* live T.  Every member function of Vector is one action: the whole      *)
(* function, exception paths included.  Which element operation throws is *)
(* an input of the action (a fault), as is the element type T (its traits  *)
(* select the relocation mode at compile time).                            *)
(***************************************************************************)
EXTENDS Integers, Sequences, FiniteSets, TLC

VARIABLES
    elemType,   \* the traits of T, fixed when the template is instantiated
    heap,       \* block id -> [alloc, slots]
    vec,        \* vector name -> [alive, data: [buffer, capacity], size]
    last,       \* the last call: what was called, with what, how it ended
    run         \* append-only runs: the capacity reserved first, the appends since

vars == <<elemType, heap, vec, last, run>>

---------------------------------------------------------------------------
(* Bounds of the model *)

\* largest size (and requested capacity) of a vector that is the only vector
MaxSize == 3
\* largest size (and requested capacity) of a vector when two vectors exist
MaxPairSize == 2
\* largest size of the append-only runs
MaxRun == 8
\* the appends a script begins with, and the largest size it resizes to
ScriptPushes == 3
MaxScript == 5

\* the values a caller stores: T() and one other
Values == {0, 1}
\* the values a script stores
ScriptValues == {1, 2, 3, 10}
\* the vectors of the program
Vecs == {"A", "B"}
\* block ids: one per vector and one for the block a call builds aside
Blocks == 1..(Cardinality(Vecs) + 1)

---------------------------------------------------------------------------
(* Slots and element values *)

\* a slot of a block in which no object lives
Raw == -1
\* the value of a value-initialized T (T())
DefaultValue == 0
\* the value of a T that was moved from, when the move empties its source:
\* that of T()
Moved == DefaultValue

\* what a move leaves in its source is unspecified: the same value or Moved
MovedKinds == {"same", "empty"}
MovedFrom(v, mf) == IF mf = "same" THEN v ELSE Moved

\* T's traits: is_nothrow_move_constructible_v<T> (and move-assignable),
\* is_copy_constructible_v<T>
Types ==
    { [nothrowMove |-> TRUE, copyable |-> TRUE],
      [nothrowMove |-> FALSE, copyable |-> TRUE],
      [nothrowMove |-> FALSE, copyable |-> FALSE] }

\* a policy that always moves
MoveModeAlways(T) == TRUE

\* the relocation mode chosen by `if constexpr`: TRUE is move, FALSE is copy
MoveMode(T) == T.nothrowMove \/ ~T.copyable

---------------------------------------------------------------------------
(* Faults: the element operation (or allocation) of a call that throws *)

NoFault == [ph |-> "none", k |-> 0]
\* the faults of a call: one of the phases `once`, or the k-th operation (k in
\* 1..n) of one of the phases `each`
Faults(once, each, n) == {NoFault} \cup [ph : once, k : {1}] \cup [ph : each, k : 1..n]

\* the same, for a caller whose element operations may throw or never do
FaultsIf(faulty, once, each, n) == IF faulty THEN Faults(once, each, n) ELSE {NoFault}

\* a move's effect on its source can be seen only after a call that threw
\* between moves, which the moves of a T with noexcept moves never make it do
MovedChoices(T, f) ==
    IF ~T.nothrowMove /\ f.ph \in {"reloc", "shift", "assign"} THEN MovedKinds ELSE {"empty"}

\* the index of the operation of phase ph that throws, 0 when none does
K(f, ph) == IF f.ph = ph THEN f.k ELSE 0

\* events that are undefined behaviour
UBEvents == {"destroy_raw", "assign_raw", "read_raw", "double_free"}
\* events that lose an object without destroying it
LeakEvents == {"construct_over_live", "leak_elem"}

---------------------------------------------------------------------------
(* Memory: m = [heap, ev] is the heap and the events seen so far in a call *)

FreeBlock == [alloc |-> FALSE, slots |-> <<>>]

Slot(m, b, i) == m.heap[b].slots[i + 1]

Note(m, cond, e) == IF cond THEN [m EXCEPT !.ev = @ \cup {e}] ELSE m

\* operator new(n * sizeof(T)), or nullptr for n = 0
Allocate(m, n) ==
    IF n = 0 THEN [m |-> m, buffer |-> 0]
    ELSE LET b == CHOOSE c \in Blocks :
                    /\ ~m.heap[c].alloc
                    /\ \A d \in Blocks : ~m.heap[d].alloc => c <= d
         IN [m |-> [m EXCEPT !.heap[b] = [alloc |-> TRUE, slots |-> [i \in 1..n |-> Raw]]],
             buffer |-> b]

\* operator delete(buf)
Deallocate(m, buf) ==
    IF buf = 0 THEN m
    ELSE IF ~m.heap[buf].alloc THEN Note(m, TRUE, "double_free")
    ELSE Note([m EXCEPT !.heap[buf] = FreeBlock],
              \E i \in 1..Len(m.heap[buf].slots) : m.heap[buf].slots[i] # Raw,
              "leak_elem")

\* RawMemory(size_t capacity)
RawMemoryNew(m, capacity) ==
    LET a == Allocate(m, capacity)
    IN [m |-> a.m, data |-> [buffer |-> a.buffer, capacity |-> capacity]]

\* RawMemory() = default
RawMemoryEmpty == [buffer |-> 0, capacity |-> 0]

\* RawMemory::Swap: returns the pair <<this, other>> after the exchange
RawMemorySwap(d, other) == <<other, d>>

\* placement new: new (buf + i) T(v)
construct_at(m, b, i, v) ==
    Note([m EXCEPT !.heap[b].slots[i + 1] = v], Slot(m, b, i) # Raw, "construct_over_live")

\* std::destroy_at(buf + i)
destroy_at(m, b, i) ==
    Note([m EXCEPT !.heap[b].slots[i + 1] = Raw], Slot(m, b, i) = Raw, "destroy_raw")

\* std::destroy_n(buf + i, n)
RECURSIVE destroy_n(_, _, _, _)
destroy_n(m, b, i, n) ==
    IF n = 0 THEN m ELSE destroy_n(destroy_at(m, b, i), b, i + 1, n - 1)

\* new (dst + di) T(src[si])
copy_construct(m, src, si, dst, di) ==
    construct_at(Note(m, Slot(m, src, si) = Raw, "read_raw"), dst, di, Slot(m, src, si))

\* new (dst + di) T(std::move(src[si]))
move_construct(m, src, si, dst, di, mf) ==
    LET v == Slot(m, src, si)
        c == construct_at(Note(m, v = Raw, "read_raw"), dst, di, v)
    IN [c EXCEPT !.heap[src].slots[si + 1] = MovedFrom(v, mf)]

\* dst[di] = src[si]
copy_assign(m, src, si, dst, di) ==
    LET v == Slot(m, src, si)
        n == Note(Note(m, v = Raw, "read_raw"), Slot(m, dst, di) = Raw, "assign_raw")
    IN [n EXCEPT !.heap[dst].slots[di + 1] = v]

\* dst[di] = std::move(src[si])
move_assign(m, src, si, dst, di, mf) ==
    LET v == Slot(m, src, si)
        n == Note(Note(m, v = Raw, "read_raw"), Slot(m, dst, di) = Raw, "assign_raw")
    IN [n EXCEPT !.heap[src].slots[si + 1] = MovedFrom(v, mf),
                 !.heap[dst].slots[di + 1] = v]

\* dst[di] = std::move(value) for a value held outside the heap
assign_value(m, dst, di, v) ==
    [Note(m, Slot(m, dst, di) = Raw, "assign_raw") EXCEPT !.heap[dst].slots[di + 1] = v]

\* The argument of PushBack, EmplaceBack, Insert and Emplace is a reference: to
\* a T outside the vector (a value), or to the element at `index` of the
\* vector itself, as an lvalue (copied from) or an rvalue (moved from).
ByValue(val) == [ref |-> FALSE, val |-> val, index |-> 0, rvalue |-> FALSE]
ByRef(index, rvalue) == [ref |-> TRUE, val |-> DefaultValue, index |-> index, rvalue |-> rvalue]

\* new (dst + di) T(std::forward<Args>(args)...), the argument read when the
\* constructor runs; b is the block a reference argument points into
construct_from(m, b, arg, dst, di, mf) ==
    IF ~arg.ref THEN construct_at(m, dst, di, arg.val)
    ELSE IF arg.rvalue THEN move_construct(m, b, arg.index, dst, di, mf)
    ELSE copy_construct(m, b, arg.index, dst, di)

\* T new_value(std::forward<Args>(args)...): a temporary outside the heap,
\* [m, v] the memory after its construction and its value
temporary_from(m, b, arg, mf) ==
    IF ~arg.ref THEN [m |-> m, v |-> arg.val]
    ELSE LET v == Slot(m, b, arg.index)
             n == Note(m, v = Raw, "read_raw")
         IN [m |-> IF arg.rvalue THEN [n EXCEPT !.heap[b].slots[arg.index + 1] = MovedFrom(v, mf)]
                   ELSE n,
             v |-> v]

RECURSIVE CopyConstructRange(_, _, _, _, _, _)
CopyConstructRange(m, src, si, dst, di, n) ==
    IF n = 0 THEN m
    ELSE CopyConstructRange(copy_construct(m, src, si, dst, di), src, si + 1, dst, di + 1, n - 1)

RECURSIVE MoveConstructRange(_, _, _, _, _, _, _)
MoveConstructRange(m, src, si, dst, di, n, mf) ==
    IF n = 0 THEN m
    ELSE MoveConstructRange(move_construct(m, src, si, dst, di, mf),
                            src, si + 1, dst, di + 1, n - 1, mf)

\* an uninitialized_copy_n that leaves what it constructed when a copy throws
uninitialized_copy_n_no_cleanup(m, src, si, n, dst, di, k) ==
    LET thrown == k \in 1..n
    IN [m |-> CopyConstructRange(m, src, si, dst, di, IF thrown THEN k - 1 ELSE n),
        thrown |-> thrown]

\* std::uninitialized_copy_n(src + si, n, dst + di); the k-th copy throws (0: none).
\* On a throw the algorithm destroys the objects it constructed.
uninitialized_copy_n(m, src, si, n, dst, di, k) ==
    LET thrown == k \in 1..n
        c == IF thrown THEN k - 1 ELSE n
        built == CopyConstructRange(m, src, si, dst, di, c)
    IN [m |-> IF thrown THEN destroy_n(built, dst, di, c) ELSE built, thrown |-> thrown]

\* std::uninitialized_move_n(src + si, n, dst + di); the k-th move throws (0:
\* none), which a T with a noexcept move constructor never does.
uninitialized_move_n(m, src, si, n, dst, di, k, T, mf) ==
    LET thrown == ~T.nothrowMove /\ k \in 1..n
        c == IF thrown THEN k - 1 ELSE n
        built == MoveConstructRange(m, src, si, dst, di, c, mf)
    IN [m |-> IF thrown THEN destroy_n(built, dst, di, c) ELSE built, thrown |-> thrown]

RECURSIVE ValueConstructRange(_, _, _, _)
ValueConstructRange(m, b, i, n) ==
    IF n = 0 THEN m ELSE ValueConstructRange(construct_at(m, b, i, DefaultValue), b, i + 1, n - 1)

\* std::uninitialized_value_construct_n(buf + i, n); the k-th T() throws
uninitialized_value_construct_n(m, b, i, n, k) ==
    LET thrown == k \in 1..n
        c == IF thrown THEN k - 1 ELSE n
        built == ValueConstructRange(m, b, i, c)
    IN [m |-> IF thrown THEN destroy_n(built, b, i, c) ELSE built, thrown |-> thrown]

\* a relocation that leaves the elements behind
RelocateNothing(m, src, si, n, dst, di, k, T, mf) == [m |-> m, thrown |-> FALSE]

\* the relocation both growth paths and Reserve use
Relocate(m, src, si, n, dst, di, k, T, mf) ==
    IF MoveMode(T) THEN uninitialized_move_n(m, src, si, n, dst, di, k, T, mf)
    ELSE uninitialized_copy_n(m, src, si, n, dst, di, k)

\* std::copy(src + si, src + si + n, dst + di); the k-th assignment throws
RECURSIVE CopyAssignRange(_, _, _, _, _, _)
CopyAssignRange(m, src, si, dst, di, n) ==
    IF n = 0 THEN m
    ELSE CopyAssignRange(copy_assign(m, src, si, dst, di), src, si + 1, dst, di + 1, n - 1)

std_copy(m, src, si, n, dst, di, k) ==
    LET thrown == k \in 1..n
    IN [m |-> CopyAssignRange(m, src, si, dst, di, IF thrown THEN k - 1 ELSE n),
        thrown |-> thrown]

\* std::move(b + first, b + last, b + d): forward, first element first
RECURSIVE MoveAssignForward(_, _, _, _, _, _)
MoveAssignForward(m, b, si, di, n, mf) ==
    IF n = 0 THEN m
    ELSE MoveAssignForward(move_assign(m, b, si, b, di, mf), b, si + 1, di + 1, n - 1, mf)

\* a forward shift that moves nothing
std_move_none(m, b, first, lst, d, k, T, mf) == [m |-> m, thrown |-> FALSE]

std_move(m, b, first, lst, d, k, T, mf) ==
    LET n == lst - first
        thrown == ~T.nothrowMove /\ k \in 1..n
    IN [m |-> MoveAssignForward(m, b, first, d, IF thrown THEN k - 1 ELSE n, mf),
        thrown |-> thrown]

\* std::move_backward(b + first, b + last, b + dlast): last element first
RECURSIVE MoveAssignBackward(_, _, _, _, _, _)
MoveAssignBackward(m, b, slast, dlast, n, mf) ==
    IF n = 0 THEN m
    ELSE MoveAssignBackward(move_assign(m, b, slast - 1, b, dlast - 1, mf),
                            b, slast - 1, dlast - 1, n - 1, mf)

\* a shift that moves nothing
std_move_backward_none(m, b, first, lst, dlast, k, T, mf) == [m |-> m, thrown |-> FALSE]

std_move_backward(m, b, first, lst, dlast, k, T, mf) ==
    LET n == lst - first
        thrown == ~T.nothrowMove /\ k \in 1..n
    IN [m |-> MoveAssignBackward(m, b, lst, dlast, IF thrown THEN k - 1 ELSE n, mf),
        thrown |-> thrown]

---------------------------------------------------------------------------
(* Vector<T>: v = [alive, data, size]; a member function maps (v, m) to    *)
(* [self, m, out, ret]: the vector and memory after it, "ok" or "throw",   *)
(* and the index of the element its result refers to (-1: none).           *)

NoRet == -1

Ok(v, m, ret) == [self |-> v, m |-> m, out |-> "ok", ret |-> ret]
Throw(v, m) == [self |-> v, m |-> m, out |-> "throw", ret |-> NoRet]

\* a Vector that is not constructed, and Vector() = default
Unborn == [alive |-> FALSE, data |-> RawMemoryEmpty, size |-> 0]
VectorDefault == [alive |-> TRUE, data |-> RawMemoryEmpty, size |-> 0]

Size(v) == v.size
Capacity(v) == v.data.capacity

\* the elements of v, index 0 first
Elems(h, v) == [i \in 1..v.size |-> h[v.data.buffer].slots[i]]

\* what a caller observes of v: Size(), Capacity(), operator[]
View(h, v) == [alive |-> v.alive, size |-> v.size, capacity |-> Capacity(v),
               elems |-> Elems(h, v)]

\* explicit Vector(size_t size)
VectorSized(m, size, f) ==
    IF f.ph = "alloc" /\ f.k = 1 /\ size # 0 THEN Throw(Unborn, m)
    ELSE LET nd == RawMemoryNew(m, size)
             r == uninitialized_value_construct_n(nd.m, nd.data.buffer, 0, size, K(f, "ctor"))
         IN IF r.thrown THEN Throw(Unborn, Deallocate(r.m, nd.data.buffer))
            ELSE Ok([alive |-> TRUE, data |-> nd.data, size |-> size], r.m, NoRet)

\* a copy constructor that shares the source's block instead of copying into its own
VectorCopyShallow(m, other, f) ==
    Ok([alive |-> TRUE, data |-> other.data, size |-> other.size], m, NoRet)

\* Vector(const Vector& other)
VectorCopy(m, other, f) ==
    IF f.ph = "alloc" /\ f.k = 1 /\ other.size # 0 THEN Throw(Unborn, m)
    ELSE LET nd == RawMemoryNew(m, other.size)
             r == uninitialized_copy_n(nd.m, other.data.buffer, 0, other.size,
                                       nd.data.buffer, 0, K(f, "ctor"))
         IN IF r.thrown THEN Throw(Unborn, Deallocate(r.m, nd.data.buffer))
            ELSE Ok([alive |-> TRUE, data |-> nd.data, size |-> other.size], r.m, NoRet)

\* a move constructor that takes the block and leaves the source its size
VectorMoveKeepsSize(other) ==
    <<[alive |-> TRUE, data |-> other.data, size |-> other.size],
      [other EXCEPT !.data = RawMemoryEmpty]>>

\* Vector(Vector&& other) noexcept: <<this, other>> after it
VectorMove(other) ==
    <<[alive |-> TRUE, data |-> other.data, size |-> other.size],
      [other EXCEPT !.data = RawMemoryEmpty, !.size = 0]>>

\* a Swap that exchanges the blocks and forgets the sizes
VectorSwapDataOnly(v, other) ==
    LET d == RawMemorySwap(v.data, other.data)
    IN <<[v EXCEPT !.data = d[1]], [other EXCEPT !.data = d[2]]>>

\* Vector::Swap: <<this, other>> after it
VectorSwap(v, other) ==
    LET d == RawMemorySwap(v.data, other.data)
    IN <<[v EXCEPT !.data = d[1], !.size = other.size],
         [other EXCEPT !.data = d[2], !.size = v.size]>>

\* ~Vector(), then ~RawMemory()
VectorDestroy(v, m) ==
    Ok(Unborn, Deallocate(destroy_n(m, v.data.buffer, 0, v.size), v.data.buffer), NoRet)

\* growth by one slot instead of doubling
GrowCapacityByOne(size) == size + 1

\* the capacity a full vector grows to
GrowCapacity(size) == IF size = 0 THEN 1 ELSE size * 2

\* a Reserve that neither destroys the old elements nor releases their block
ReserveLeavesOld(v, m, new_capacity, T, f, mf) ==
    IF new_capacity <= Capacity(v) THEN Ok(v, m, NoRet)
    ELSE IF f.ph = "alloc" /\ f.k = 1 THEN Throw(v, m)
    ELSE LET nd == RawMemoryNew(m, new_capacity)
             r == Relocate(nd.m, v.data.buffer, 0, v.size, nd.data.buffer, 0,
                           K(f, "reloc"), T, mf)
         IN IF r.thrown THEN Throw(v, Deallocate(r.m, nd.data.buffer))
            ELSE Ok([v EXCEPT !.data = nd.data], r.m, NoRet)

\* Vector::Reserve
Reserve(v, m, new_capacity, T, f, mf) ==
    IF new_capacity <= Capacity(v) THEN Ok(v, m, NoRet)
    ELSE IF f.ph = "alloc" /\ f.k = 1 THEN Throw(v, m)
    ELSE LET nd == RawMemoryNew(m, new_capacity)
             r == Relocate(nd.m, v.data.buffer, 0, v.size, nd.data.buffer, 0,
                           K(f, "reloc"), T, mf)
         IN IF r.thrown THEN Throw(v, Deallocate(r.m, nd.data.buffer))
            ELSE Ok([v EXCEPT !.data = nd.data],
                    Deallocate(destroy_n(r.m, v.data.buffer, 0, v.size), v.data.buffer),
                    NoRet)

\* a Resize that sets size_ before it constructs the new elements
ResizeSizeFirst(v, m, new_size, T, f, mf) ==
    IF new_size < v.size
    THEN Ok([v EXCEPT !.size = new_size],
            destroy_n(m, v.data.buffer, new_size, v.size - new_size), NoRet)
    ELSE LET g == IF new_size > Capacity(v) THEN Reserve(v, m, new_size, T, f, mf)
                  ELSE Ok(v, m, NoRet)
         IN IF g.out = "throw" THEN g
            ELSE LET r == uninitialized_value_construct_n(
                              g.m, g.self.data.buffer, v.size, new_size - v.size, K(f, "ctor"))
                 IN IF r.thrown THEN Throw([g.self EXCEPT !.size = new_size], r.m)
                    ELSE Ok([g.self EXCEPT !.size = new_size], r.m, NoRet)

\* Vector::Resize
Resize(v, m, new_size, T, f, mf) ==
    IF new_size < v.size
    THEN Ok([v EXCEPT !.size = new_size],
            destroy_n(m, v.data.buffer, new_size, v.size - new_size), NoRet)
    ELSE LET g == IF new_size > Capacity(v) THEN Reserve(v, m, new_size, T, f, mf)
                  ELSE Ok(v, m, NoRet)
         IN IF g.out = "throw" THEN g
            ELSE LET r == uninitialized_value_construct_n(
                              g.m, g.self.data.buffer, v.size, new_size - v.size, K(f, "ctor"))
                 IN IF r.thrown THEN Throw(g.self, r.m)
                    ELSE Ok([g.self EXCEPT !.size = new_size], r.m, NoRet)

\* Vector::PopBack
PopBack(v, m) ==
    Ok([v EXCEPT !.size = @ - 1], destroy_at(m, v.data.buffer, v.size - 1), NoRet)

\* Vector::EmplaceBack, the branch Capacity() <= size_
EmplaceBackGrow(v, m, arg, T, f, mf) ==
    IF f.ph = "alloc" /\ f.k = 1 THEN Throw(v, m)
    ELSE LET nd == RawMemoryNew(m, GrowCapacity(v.size))
             nb == nd.data.buffer
         IN IF f.ph = "ctor" /\ f.k = 1 THEN Throw(v, Deallocate(nd.m, nb))
            ELSE LET c == construct_from(nd.m, v.data.buffer, arg, nb, v.size, mf)
                     r == Relocate(c, v.data.buffer, 0, v.size, nb, 0, K(f, "reloc"), T, mf)
                 IN IF r.thrown
                    THEN Throw(v, Deallocate(destroy_at(r.m, nb, v.size), nb))
                    ELSE Ok([v EXCEPT !.data = nd.data, !.size = @ + 1],
                            Deallocate(destroy_n(r.m, v.data.buffer, 0, v.size),
                                       v.data.buffer),
                            v.size)

\* Vector::EmplaceBack, the branch with room left
EmplaceBackInPlace(v, m, arg, f, mf) ==
    IF f.ph = "ctor" /\ f.k = 1 THEN Throw(v, m)
    ELSE Ok([v EXCEPT !.size = @ + 1],
            construct_from(m, v.data.buffer, arg, v.data.buffer, v.size, mf), v.size)

\* Vector::EmplaceBack(Args&&... args), whatever the argument refers to
EmplaceBackFrom(v, m, arg, T, f, mf) ==
    IF Capacity(v) <= v.size THEN EmplaceBackGrow(v, m, arg, T, f, mf)
    ELSE EmplaceBackInPlace(v, m, arg, f, mf)

\* Vector::EmplaceBack with an argument outside the vector
EmplaceBack(v, m, val, T, f, mf) == EmplaceBackFrom(v, m, ByValue(val), T, f, mf)

\* Vector::PushBack
PushBack(v, m, val, T, f, mf) == EmplaceBack(v, m, val, T, f, mf)

\* the catch block of Emplace's growth branch
EmplaceGrowCatch(m, nb, distance) == destroy_n(m, nb, 0, distance + 1)

\* Vector::Emplace, the branch Capacity() <= size_
EmplaceGrow(v, m, distance, arg, T, f, mf) ==
    IF f.ph = "alloc" /\ f.k = 1 THEN Throw(v, m)
    ELSE LET nd == RawMemoryNew(m, GrowCapacity(v.size))
             nb == nd.data.buffer
             ob == v.data.buffer
             k == K(f, "reloc")
         IN IF f.ph = "ctor" /\ f.k = 1 THEN Throw(v, Deallocate(nd.m, nb))
            ELSE LET c == construct_from(nd.m, ob, arg, nb, distance, mf)
                     r1 == Relocate(c, ob, 0, distance, nb, 0, k, T, mf)
                     r2 == Relocate(r1.m, ob, distance, v.size - distance, nb, distance + 1,
                                    IF k > distance THEN k - distance ELSE 0, T, mf)
                 IN IF r1.thrown
                    THEN Throw(v, Deallocate(EmplaceGrowCatch(r1.m, nb, distance), nb))
                    ELSE IF r2.thrown
                    THEN Throw(v, Deallocate(EmplaceGrowCatch(r2.m, nb, distance), nb))
                    ELSE Ok([v EXCEPT !.data = nd.data, !.size = @ + 1],
                            Deallocate(destroy_n(r2.m, ob, 0, v.size), ob),
                            distance)

\* an in-place Emplace that lets a throwing shift leave the new last element
EmplaceInPlaceNoCatch(v, m, distance, arg, T, f, mf) ==
    LET b == v.data.buffer
    IN IF distance # v.size
       THEN IF f.ph = "ctor" /\ f.k = 1 THEN Throw(v, m)
            ELSE LET new_value == temporary_from(m, b, arg, mf)
                 IN IF f.ph = "movelast" /\ f.k = 1 /\ ~T.nothrowMove
                    THEN Throw(v, new_value.m)
                    ELSE LET c == move_construct(new_value.m, b, v.size - 1, b, v.size, mf)
                             s == std_move_backward(c, b, distance, v.size - 1, v.size,
                                                    K(f, "shift"), T, mf)
                         IN IF s.thrown THEN Throw(v, s.m)
                            ELSE IF f.ph = "assign" /\ f.k = 1 /\ ~T.nothrowMove
                            THEN Throw(v, s.m)
                            ELSE Ok([v EXCEPT !.size = @ + 1],
                                    assign_value(s.m, b, distance, new_value.v), distance)
       ELSE IF f.ph = "ctor" /\ f.k = 1 THEN Throw(v, m)
            ELSE Ok([v EXCEPT !.size = @ + 1],
                    construct_from(m, b, arg, b, v.size, mf), distance)

\* an in-place Emplace with no temporary: the argument is read by the last
\* assignment, after the shift
EmplaceInPlaceNoTemp(v, m, distance, arg, T, f, mf) ==
    LET b == v.data.buffer
    IN IF distance # v.size
       THEN IF f.ph = "ctor" /\ f.k = 1 THEN Throw(v, m)
            ELSE IF f.ph = "movelast" /\ f.k = 1 /\ ~T.nothrowMove THEN Throw(v, m)
            ELSE LET c == move_construct(m, b, v.size - 1, b, v.size, mf)
                     s == std_move_backward(c, b, distance, v.size - 1, v.size,
                                            K(f, "shift"), T, mf)
                 IN IF s.thrown THEN Throw(v, destroy_at(s.m, b, v.size))
                    ELSE IF f.ph = "assign" /\ f.k = 1 /\ ~T.nothrowMove
                    THEN Throw(v, s.m)
                    ELSE LET late == temporary_from(s.m, b, arg, mf)
                         IN Ok([v EXCEPT !.size = @ + 1],
                               assign_value(late.m, b, distance, late.v), distance)
       ELSE IF f.ph = "ctor" /\ f.k = 1 THEN Throw(v, m)
            ELSE Ok([v EXCEPT !.size = @ + 1],
                    construct_from(m, b, arg, b, v.size, mf), distance)

\* Vector::Emplace, the branch with room left
EmplaceInPlace(v, m, distance, arg, T, f, mf) ==
    LET b == v.data.buffer
    IN IF distance # v.size
       THEN IF f.ph = "ctor" /\ f.k = 1 THEN Throw(v, m)
            ELSE LET new_value == temporary_from(m, b, arg, mf)
                 IN IF f.ph = "movelast" /\ f.k = 1 /\ ~T.nothrowMove
                    THEN Throw(v, new_value.m)
                    ELSE LET c == move_construct(new_value.m, b, v.size - 1, b, v.size, mf)
                             s == std_move_backward(c, b, distance, v.size - 1, v.size,
                                                    K(f, "shift"), T, mf)
                         IN IF s.thrown THEN Throw(v, destroy_at(s.m, b, v.size))
                            ELSE IF f.ph = "assign" /\ f.k = 1 /\ ~T.nothrowMove
                            THEN Throw(v, s.m)
                            ELSE Ok([v EXCEPT !.size = @ + 1],
                                    assign_value(s.m, b, distance, new_value.v), distance)
       ELSE IF f.ph = "ctor" /\ f.k = 1 THEN Throw(v, m)
            ELSE Ok([v EXCEPT !.size = @ + 1],
                    construct_from(m, b, arg, b, v.size, mf), distance)

\* Vector::Emplace(const_iterator pos, Args&&... args), whatever the argument
\* refers to
EmplaceFrom(v, m, distance, arg, T, f, mf) ==
    IF Capacity(v) <= v.size THEN EmplaceGrow(v, m, distance, arg, T, f, mf)
    ELSE EmplaceInPlace(v, m, distance, arg, T, f, mf)

\* Vector::Emplace with an argument outside the vector
Emplace(v, m, distance, val, T, f, mf) == EmplaceFrom(v, m, distance, ByValue(val), T, f, mf)

\* Vector::Insert
Insert(v, m, distance, val, T, f, mf) == Emplace(v, m, distance, val, T, f, mf)

\* an Erase that drops the last element whatever the position
EraseLast(v, m, distance, T, f, mf) ==
    Ok([v EXCEPT !.size = @ - 1], destroy_at(m, v.data.buffer, v.size - 1), distance)

\* Vector::Erase
Erase(v, m, distance, T, f, mf) ==
    LET b == v.data.buffer
        s == std_move(m, b, distance + 1, v.size, distance, K(f, "shift"), T, mf)
    IN IF s.thrown THEN Throw(v, s.m)
       ELSE Ok([v EXCEPT !.size = @ - 1], destroy_at(s.m, b, v.size - 1), distance)

\* v[index] = val, through T& operator[](size_t index)
Subscript(v, m, index, val) == Ok(v, assign_value(m, v.data.buffer, index, val), index)

\* a copy assignment that always copies and swaps
CopyAssignBySwap(v, rhs, m, same, f) ==
    IF same THEN Ok(v, m, NoRet)
    ELSE LET other_copy == VectorCopy(m, rhs, f)
         IN IF other_copy.out = "throw" THEN Throw(v, other_copy.m)
            ELSE LET sw == VectorSwap(v, other_copy.self)
                 IN Ok(sw[1], VectorDestroy(sw[2], other_copy.m).m, NoRet)

\* Vector::operator=(const Vector& rhs); same: this == &rhs
CopyAssign(v, rhs, m, same, f) ==
    IF same THEN Ok(v, m, NoRet)
    ELSE IF rhs.size <= Capacity(v)
    THEN LET b == v.data.buffer
             rb == rhs.data.buffer
         IN IF v.size <= rhs.size
            THEN LET c == std_copy(m, rb, 0, v.size, b, 0, K(f, "assign"))
                     u == uninitialized_copy_n(c.m, rb, v.size, rhs.size - v.size,
                                               b, v.size, K(f, "ctor"))
                 IN IF c.thrown THEN Throw(v, c.m)
                    ELSE IF u.thrown THEN Throw(v, u.m)
                    ELSE Ok([v EXCEPT !.size = rhs.size], u.m, NoRet)
            ELSE LET c == std_copy(m, rb, 0, rhs.size, b, 0, K(f, "assign"))
                 IN IF c.thrown THEN Throw(v, c.m)
                    ELSE Ok([v EXCEPT !.size = rhs.size],
                            destroy_n(c.m, b, rhs.size, v.size - rhs.size), NoRet)
    ELSE LET other_copy == VectorCopy(m, rhs, f)
         IN IF other_copy.out = "throw" THEN Throw(v, other_copy.m)
            ELSE LET sw == VectorSwap(v, other_copy.self)
                 IN Ok(sw[1], VectorDestroy(sw[2], other_copy.m).m, NoRet)

\* a move assignment that steals: the source is left empty, not exchanged
MoveAssignSteal(v, rhs) ==
    <<[v EXCEPT !.data = rhs.data, !.size = rhs.size],
      [rhs EXCEPT !.data = RawMemoryEmpty, !.size = 0]>>

\* Vector::operator=(Vector&& rhs) noexcept: <<this, rhs>> after it
MoveAssign(v, rhs) == VectorSwap(v, rhs)

---------------------------------------------------------------------------
(* The program: a caller that constructs, uses and destroys vectors *)

M0 == [heap |-> heap, ev |-> {}]

Running == last.out # "abort"

\* a fault is an input of a call only where the call reaches it (the calls
\* below offer the faults of the branch they take; Hit decides)
Hit(f, out) == (f = NoFault) <=> (out = "ok")

\* how a call may end: as computed or, after undefined behaviour, also aborted
Outcomes(m, out) == IF m.ev \cap UBEvents # {} THEN {out, "abort"} ELSE {out}

\* Which address operator new returns is not the program's choice and no
\* member function compares addresses of blocks, so the state after a call is
\* kept up to a renaming of the blocks: first the blocks the vectors point to
\* (A's, then B's), then the others by id.
Canon(v, h) ==
    LET a == v["A"].data.buffer
        b == v["B"].data.buffer
        s1 == IF a # 0 THEN <<a>> ELSE <<>>
        s2 == IF b # 0 /\ b # a THEN Append(s1, b) ELSE s1
        order == s2 \o SelectSeq([c \in Blocks |-> c],
                                 LAMBDA c : \A j \in 1..Len(s2) : s2[j] # c)
        at(c) == IF c = 0 THEN 0 ELSE CHOOSE i \in Blocks : order[i] = c
    IN [vec |-> [x \in Vecs |-> [v[x] EXCEPT !.data.buffer = at(@)]],
        heap |-> [i \in Blocks |-> h[order[i]]]]

\* the call is recorded with its fault's phase, its outcome, its events,
\* whether it left the observable state of its vector x as it was (kept) and
\* whether it left that of every vector it was not given to change (frame);
\* `given` are the vectors it may change
Done(op, x, given, f, newvec, m, out) ==
    \E o \in Outcomes(m, out) :
        /\ LET c == Canon(newvec, m.heap)
           IN vec' = c.vec /\ heap' = c.heap
        /\ last' = [op |-> op, ph |-> f.ph, out |-> o, ev |-> m.ev,
                    kept |-> View(m.heap, newvec[x]) = View(heap, vec[x]),
                    frame |-> \A z \in Vecs \ given :
                                 View(m.heap, newvec[z]) = View(heap, vec[z])]
        /\ UNCHANGED <<elemType, run>>

\* a call on one vector, from the result r of its member function
DoneOne(op, x, f, r) ==
    Done(op, x, {x}, f, [vec EXCEPT ![x] = r.self], r.m, r.out)

Init ==
    /\ elemType \in Types
    /\ heap = [b \in Blocks |-> FreeBlock]
    /\ vec = [x \in Vecs |-> Unborn]
    /\ last = [op |-> "init", ph |-> "none", out |-> "ok", ev |-> {}, kept |-> TRUE, frame |-> TRUE]
    /\ run = [reserved |-> 0, pushes |-> 0]

CallDefault(x) ==
    /\ Running /\ ~vec[x].alive
    /\ DoneOne("Vector()", x, NoFault, Ok(VectorDefault, M0, NoRet))

CallSized(x, lim, faulty) ==
    /\ Running /\ ~vec[x].alive
    /\ \E n \in 0..lim : \E f \in FaultsIf(faulty, {"alloc"}, {"ctor"}, n) :
        LET r == VectorSized(M0, n, f)
        IN Hit(f, r.out) /\ DoneOne("Vector(n)", x, f, r)

CallCopyConstruct(x, y) ==
    /\ Running /\ ~vec[x].alive /\ vec[y].alive /\ elemType.copyable
    /\ \E f \in Faults({"alloc"}, {"ctor"}, vec[y].size) :
        LET r == VectorCopy(M0, vec[y], f)
        IN /\ Hit(f, r.out)
           /\ Done("Vector(const&)", x, {x}, f,
                   [vec EXCEPT ![x] = r.self], r.m, r.out)

\* the vectors after a call on x and y that returns the pair <<x, y>>; with
\* x = y both are the same object and the later write is the one that stays
ApplyPair(x, y, r) == [vec EXCEPT ![x] = r[1], ![y] = r[2]]

CallMoveConstruct(x, y) ==
    /\ Running /\ ~vec[x].alive /\ vec[y].alive
    /\ Done("Vector(&&)", x, {x, y}, NoFault, ApplyPair(x, y, VectorMove(vec[y])), M0, "ok")

CallDestroy(x) ==
    /\ Running /\ vec[x].alive
    /\ DoneOne("~Vector", x, NoFault, VectorDestroy(vec[x], M0))

CallCopyAssign(x, y) ==
    /\ Running /\ vec[x].alive /\ vec[y].alive /\ elemType.copyable
    /\ \E f \in Faults({"alloc"}, {"ctor", "assign"}, vec[y].size) :
        LET r == CopyAssign(vec[x], vec[y], M0, x = y, f)
        IN /\ Hit(f, r.out)
           /\ Done("operator=(const&)", x, {x}, f,
                   [vec EXCEPT ![x] = r.self], r.m, r.out)

CallMoveAssign(x, y) ==
    /\ Running /\ vec[x].alive /\ vec[y].alive
    /\ Done("operator=(&&)", x, {x, y}, NoFault, ApplyPair(x, y, MoveAssign(vec[x], vec[y])),
            M0, "ok")

CallSwap(x, y) ==
    /\ Running /\ vec[x].alive /\ vec[y].alive
    /\ Done("Swap", x, {x, y}, NoFault, ApplyPair(x, y, VectorSwap(vec[x], vec[y])), M0, "ok")

CallSubscript(x) ==
    /\ Running /\ vec[x].alive
    /\ \E index \in 0..(vec[x].size - 1), val \in Values :
        DoneOne("operator[]", x, NoFault, Subscript(vec[x], M0, index, val))

CallReserve(x, lim, faulty) ==
    /\ Running /\ vec[x].alive
    /\ \E n \in 0..lim :
        \E f \in FaultsIf(faulty /\ n > Capacity(vec[x]), {"alloc"}, {"reloc"}, vec[x].size) :
        \E mf \in MovedChoices(elemType, f) :
        LET r == Reserve(vec[x], M0, n, elemType, f, mf)
        IN Hit(f, r.out) /\ DoneOne("Reserve", x, f, r)

CallResize(x, lim, faulty) ==
    /\ Running /\ vec[x].alive
    /\ \E n \in 0..lim :
        \E f \in FaultsIf(faulty /\ n > vec[x].size, {"alloc"}, {"reloc", "ctor"}, n) :
        \E mf \in MovedChoices(elemType, f) :
        LET r == Resize(vec[x], M0, n, elemType, f, mf)
        IN Hit(f, r.out) /\ DoneOne("Resize", x, f, r)

CallPopBack(x) ==
    /\ Running /\ vec[x].alive /\ vec[x].size > 0
    /\ DoneOne("PopBack", x, NoFault, PopBack(vec[x], M0))

CallEmplaceBack(x, lim, faulty) ==
    /\ Running /\ vec[x].alive
    /\ \E val \in Values :
        \E f \in FaultsIf(faulty, {"alloc", "ctor"}, {"reloc"},
                          IF Capacity(vec[x]) <= vec[x].size THEN vec[x].size ELSE 0) :
        \E mf \in MovedChoices(elemType, f) :
        LET r == EmplaceBack(vec[x], M0, val, elemType, f, mf)
        IN /\ vec[x].size < lim
           /\ Hit(f, r.out)
           /\ DoneOne("EmplaceBack", x, f, r)

CallEmplace(x, lim, faulty) ==
    /\ Running /\ vec[x].alive
    /\ \E distance \in 0..vec[x].size, val \in Values :
        \E f \in IF Capacity(vec[x]) <= vec[x].size
                THEN FaultsIf(faulty, {"alloc", "ctor"}, {"reloc"}, vec[x].size)
                ELSE FaultsIf(faulty, {"ctor", "movelast", "assign"}, {"shift"},
                              vec[x].size - 1 - distance) :
        \E mf \in MovedChoices(elemType, f) :
        LET r == Emplace(vec[x], M0, distance, val, elemType, f, mf)
        IN /\ vec[x].size < lim
           /\ Hit(f, r.out)
           /\ DoneOne("Emplace", x, f, r)

CallErase(x, faulty) ==
    /\ Running /\ vec[x].alive
    /\ \E distance \in 0..(vec[x].size - 1) :
        \E f \in FaultsIf(faulty, {}, {"shift"}, vec[x].size - 1 - distance) :
        \E mf \in MovedChoices(elemType, f) :
        LET r == Erase(vec[x], M0, distance, elemType, f, mf)
        IN Hit(f, r.out) /\ DoneOne("Erase", x, f, r)

\* the arguments that refer to an element of v itself: v[j] (which needs a
\* copyable T) and std::move(v[j])
Aliases(v, T) == {ByRef(j, rv) : j \in 0..(v.size - 1), rv \in {r \in BOOLEAN : r \/ T.copyable}}

\* what a move from the argument leaves in it is seen after the call
AliasMoved(arg) == IF arg.rvalue THEN MovedKinds ELSE {"empty"}

\* v.PushBack(v[j]), v.PushBack(std::move(v[j]))
CallPushBackAlias(x, lim) ==
    /\ Running /\ vec[x].alive /\ vec[x].size < lim
    /\ \E arg \in Aliases(vec[x], elemType) : \E mf \in AliasMoved(arg) :
        DoneOne("PushBack(v[j])", x, NoFault,
                EmplaceBackFrom(vec[x], M0, arg, elemType, NoFault, mf))

\* v.Insert(pos, v[j]), v.Insert(pos, std::move(v[j]))
CallInsertAlias(x, lim) ==
    /\ Running /\ vec[x].alive /\ vec[x].size < lim
    /\ \E distance \in 0..vec[x].size :
        \E arg \in Aliases(vec[x], elemType) : \E mf \in AliasMoved(arg) :
        DoneOne("Insert(pos, v[j])", x, NoFault,
                EmplaceFrom(vec[x], M0, distance, arg, elemType, NoFault, mf))

\* one vector, every member function that takes no second vector
Next ==
    \/ CallDefault("A")
    \/ CallSized("A", MaxSize, TRUE)
    \/ CallDestroy("A")
    \/ CallReserve("A", MaxSize, TRUE)
    \/ CallResize("A", MaxSize, TRUE)
    \/ CallPopBack("A")
    \/ CallEmplaceBack("A", MaxSize, TRUE)
    \/ CallEmplace("A", MaxSize, TRUE)
    \/ CallPushBackAlias("A", MaxSize)
    \/ CallInsertAlias("A", MaxSize)
    \/ CallErase("A", TRUE)
    \/ CallSubscript("A")

Spec == Init /\ [][Next]_vars

\* two vectors, every member function; the element operations of the calls on
\* one vector do not throw here (Spec explores those), the copies' may
NextPair ==
    \E x \in Vecs :
        \/ CallDefault(x)
        \/ CallSized(x, MaxPairSize, FALSE)
        \/ CallDestroy(x)
        \/ CallReserve(x, MaxPairSize, FALSE)
        \/ CallResize(x, MaxPairSize, FALSE)
        \/ CallPopBack(x)
        \/ CallEmplaceBack(x, MaxPairSize, FALSE)
        \/ CallEmplace(x, MaxPairSize, FALSE)
        \/ CallErase(x, FALSE)
        \/ CallSubscript(x)
        \/ \E y \in Vecs :
            \/ CallCopyConstruct(x, y)
            \/ CallMoveConstruct(x, y)
            \/ CallCopyAssign(x, y)
            \/ CallMoveAssign(x, y)
            \/ CallSwap(x, y)

\* T is copyable there, so that every member function can be called, and its
\* moves are noexcept: with no throw in a relocation both modes leave the same
InitPair == Init /\ elemType.copyable /\ elemType.nothrowMove

SpecPair == InitPair /\ [][NextPair]_vars

---------------------------------------------------------------------------
(* Append-only runs: a default-constructed vector, an optional Reserve     *)
(* before the first append, then appends that do not throw                 *)

InitRun ==
    /\ elemType \in Types
    /\ heap = [b \in Blocks |-> FreeBlock]
    /\ vec = [x \in Vecs |-> IF x = "A" THEN VectorDefault ELSE Unborn]
    /\ last = [op |-> "Vector()", ph |-> "none", out |-> "ok", ev |-> {}, kept |-> TRUE, frame |-> TRUE]
    /\ run = [reserved |-> 0, pushes |-> 0]

RunReserve ==
    /\ run = [reserved |-> 0, pushes |-> 0]
    /\ \E n \in 1..MaxSize :
        LET r == Reserve(vec["A"], M0, n, elemType, NoFault, "empty")
        IN /\ vec' = [vec EXCEPT !["A"] = r.self]
           /\ heap' = r.m.heap
           /\ last' = [op |-> "Reserve", ph |-> "none", out |-> r.out, ev |-> r.m.ev,
                       kept |-> FALSE, frame |-> TRUE]
           /\ run' = [run EXCEPT !.reserved = n]
           /\ UNCHANGED elemType

RunPushBack ==
    /\ vec["A"].size < MaxRun
    /\ \E val \in Values :
        LET r == PushBack(vec["A"], M0, val, elemType, NoFault, "empty")
        IN /\ vec' = [vec EXCEPT !["A"] = r.self]
           /\ heap' = r.m.heap
           /\ last' = [op |-> "PushBack", ph |-> "none", out |-> r.out, ev |-> r.m.ev,
                       kept |-> FALSE, frame |-> TRUE]
           /\ run' = [run EXCEPT !.pushes = @ + 1]
           /\ UNCHANGED elemType

NextRun == RunReserve \/ RunPushBack

SpecRun == InitRun /\ [][NextRun]_vars

---------------------------------------------------------------------------
(* Scripts: a default-constructed vector, ScriptPushes appends, one         *)
(* insertion, one erasure, then resizes; no element operation throws        *)

ScriptPushBack ==
    /\ last.op \in {"Vector()", "PushBack"}
    /\ vec["A"].size < ScriptPushes
    /\ \E val \in ScriptValues :
        DoneOne("PushBack", "A", NoFault,
                PushBack(vec["A"], M0, val, elemType, NoFault, "empty"))

ScriptInsert ==
    /\ last.op = "PushBack"
    /\ vec["A"].size = ScriptPushes
    /\ \E distance \in 0..vec["A"].size, val \in ScriptValues :
        DoneOne("Insert", "A", NoFault,
                Insert(vec["A"], M0, distance, val, elemType, NoFault, "empty"))

ScriptErase ==
    /\ last.op = "Insert"
    /\ \E distance \in 0..(vec["A"].size - 1) :
        DoneOne("Erase", "A", NoFault,
                Erase(vec["A"], M0, distance, elemType, NoFault, "empty"))

ScriptResize ==
    /\ last.op \in {"Erase", "Resize"}
    /\ \E n \in 0..MaxScript :
        DoneOne("Resize", "A", NoFault,
                Resize(vec["A"], M0, n, elemType, NoFault, "empty"))

NextScript == ScriptPushBack \/ ScriptInsert \/ ScriptErase \/ ScriptResize

SpecScript == InitRun /\ [][NextScript]_vars

---------------------------------------------------------------------------
(* Properties *)

Alive == {x \in Vecs : vec[x].alive}

\* the slots of the block v owns
SlotsOf(h, v) == IF v.data.buffer = 0 THEN <<>> ELSE h[v.data.buffer].slots

\* C1: in every reachable state, whatever calls came before and however they
\* ended, each vector has 0 <= size <= capacity, exactly its slots [0, size)
\* hold live elements and its slots [size, capacity) are raw storage.
C1_SizeCapacityLive ==
    \A x \in Alive :
        LET v == vec[x]
            slots == SlotsOf(heap, v)
        IN /\ 0 <= v.size /\ v.size <= Capacity(v)
           /\ Len(slots) = Capacity(v)
           /\ \A i \in 1..Len(slots) : (slots[i] # Raw) <=> (i <= v.size)

\* C2: when a relocation throws during a growth-triggered EmplaceBack or Emplace,
\* the vector has afterwards the size, the capacity and the elements it had
\* before the call, whichever relocation mode T selects.
C2_GrowthRollback ==
    (last.op \in {"EmplaceBack", "Emplace"} /\ last.out = "throw" /\ last.ph = "reloc")
        => last.kept

\* C3: no two vectors own the same block, every allocated block is owned by a
\* vector (none is leaked) and every owned block is allocated (none is
\* released while owned), no call releases a block twice, destroys a slot that
\* holds no element or loses an element without destroying it, and when every
\* vector is destroyed no block is left allocated.
C3_SingleOwner ==
    /\ \A x, y \in Alive : (x # y /\ vec[x].data.buffer # 0)
                             => vec[x].data.buffer # vec[y].data.buffer
    /\ \A b \in Blocks : heap[b].alloc => \E x \in Alive : vec[x].data.buffer = b
    /\ \A x \in Alive : vec[x].data.buffer # 0 => heap[vec[x].data.buffer].alloc
    /\ last.ev \cap (UBEvents \cup LeakEvents) = {}
    /\ (Alive = {}) => \A b \in Blocks : heap[b] = FreeBlock

\* C1 is reached where it matters: an in-place Emplace before the end threw
\* in its last assignment
C1_Witness ==
    /\ last.op = "Emplace" /\ last.out = "throw" /\ last.ph = "assign"
    /\ vec["A"].size < Capacity(vec["A"])

\* C2 is reached: a relocation threw in a growth of a vector with two elements
C2_Witness ==
    /\ last.op \in {"EmplaceBack", "Emplace"} /\ last.out = "throw" /\ last.ph = "reloc"
    /\ vec["A"].size = 2 /\ Capacity(vec["A"]) = 2

\* b is a copy of a that lives in storage of its own
IsCopy(h, b, a) ==
    /\ b.alive /\ b.size = a.size
    /\ Elems(h, b) = Elems(h, a)
    /\ b.data.buffer = 0 \/ b.data.buffer # a.data.buffer

\* C4: a vector copy-constructed or copy-assigned from a holds a's elements in
\* storage of its own and the copy leaves a as it was; and no call on another
\* vector (append, insert, erase, resize, reserve, element write, pop,
\* destruction, assignment to it) changes the size, capacity or elements of a
\* vector the call was not given to change.
C4_CopyIndependence ==
    /\ last.frame
    /\ \A a \in Alive :
        LET c == VectorCopy(M0, vec[a], NoFault)
        IN /\ c.out = "ok"
           /\ IsCopy(c.m.heap, c.self, vec[a])
           /\ View(c.m.heap, vec[a]) = View(heap, vec[a])
           /\ \A b \in Alive \ {a} :
                LET g == CopyAssign(vec[b], vec[a], M0, FALSE, NoFault)
                IN /\ g.out = "ok"
                   /\ IsCopy(g.m.heap, g.self, vec[a])
                   /\ View(g.m.heap, vec[a]) = View(heap, vec[a])

\* C4 is reached: one vector was just copied from the other, which holds two
\* elements
C4_Witness ==
    /\ last.op \in {"Vector(const&)", "operator=(const&)"} /\ last.out = "ok"
    /\ Alive = Vecs
    /\ vec["A"].size = 2
    /\ IsCopy(heap, vec["B"], vec["A"])
    /\ vec["A"].data.buffer # vec["B"].data.buffer

\* C5 as the specification states it: after b = std::move(a), a.size() == 0
\* and a.capacity() == 0, whatever a and b held.
C5_MoveAssignEmptiesSource ==
    \A b, a \in Alive :
        b # a => LET nv == ApplyPair(b, a, MoveAssign(vec[b], vec[a]))
                 IN nv[a].size = 0 /\ Capacity(nv[a]) = 0

\* C5, amended: after b = std::move(a), a has the size and the capacity b had
\* before the assignment (so a is empty with capacity 0 only when b was).
C5_MoveAssignSourceGetsTarget ==
    \A b, a \in Alive :
        b # a => LET nv == ApplyPair(b, a, MoveAssign(vec[b], vec[a]))
                 IN nv[a].size = vec[b].size /\ Capacity(nv[a]) = Capacity(vec[b])

\* C5 is reached: a move-assignment between two vectors that both hold
\* elements
C5_Witness ==
    /\ last.op = "operator=(&&)" /\ ~last.kept
    /\ Alive = Vecs
    /\ \A x \in Vecs : vec[x].size >= 1

\* C6: b = std::move(a) exchanges the two vectors: b has the size, capacity,
\* elements and block a had, a has those b had, and with b and a the same
\* vector nothing changes.  (MoveAssign takes no memory: it constructs, copies
\* and destroys no element, and has no outcome but success.)
C6_MoveAssignExchanges ==
    \A b, a \in Alive :
        LET nv == ApplyPair(b, a, MoveAssign(vec[b], vec[a]))
        IN IF b = a THEN nv = vec
           ELSE /\ nv[b] = vec[a]
                /\ nv[a] = vec[b]
                /\ View(heap, nv[b]) = View(heap, vec[a])
                /\ View(heap, nv[a]) = View(heap, vec[b])

\* C6 is reached: a move-assignment exchanged a vector of two elements and a
\* vector of one
C6_Witness ==
    /\ last.op = "operator=(&&)" /\ ~last.kept
    /\ vec["A"].alive /\ vec["B"].alive
    /\ {vec["A"].size, vec["B"].size} = {1, 2}

\* C7: Vector b(std::move(a)) gives b the size, capacity, elements and block
\* of a, and leaves a alive with size 0, capacity 0 and no block.  (VectorMove
\* takes no memory: no element is constructed or destroyed.)
C7_MoveConstructSteals ==
    \A a \in Alive :
        LET r == VectorMove(vec[a])
        IN /\ r[1] = vec[a]
           /\ View(heap, r[1]) = View(heap, vec[a])
           /\ r[2].alive /\ r[2].size = 0 /\ r[2].data = RawMemoryEmpty

\* C7 is reached: a vector was move-constructed from one that held two elements
C7_Witness ==
    /\ last.op = "Vector(&&)"
    /\ \E b, a \in Alive :
        /\ vec[b].size = 2
        /\ vec[a].size = 0 /\ Capacity(vec[a]) = 0 /\ vec[a].data.buffer = 0

\* the smallest power of two that is at least k (k >= 1)
Pow2Ceil(k) == CHOOSE p \in {2^i : i \in 0..MaxRun} : p >= k /\ (p = 1 \/ p \div 2 < k)

Max(a, b) == IF a >= b THEN a ELSE b

\* C8: EmplaceBack and Emplace reallocate only when size == capacity, and then
\* to the capacity max(1, 2 * size); so the k-th append to a default-constructed
\* vector leaves the capacity at the smallest power of two >= k (1, 2, 4, 8),
\* and Reserve(2) and three appends leave it at 4.
C8_GrowthRule ==
    LET v == vec["A"]
        grown(r) == IF v.size = Capacity(v)
                    THEN Capacity(r.self) = Max(1, 2 * v.size)
                         /\ Len(r.m.heap[r.self.data.buffer].slots) = Capacity(r.self)
                    ELSE r.self.data = v.data
    IN /\ \A val \in Values :
            /\ grown(EmplaceBack(v, M0, val, elemType, NoFault, "empty"))
            /\ \A distance \in 0..v.size :
                 grown(Emplace(v, M0, distance, val, elemType, NoFault, "empty"))
       /\ (run.reserved = 0 /\ run.pushes >= 1)
            => (v.size = run.pushes /\ Capacity(v) = Pow2Ceil(run.pushes))
       /\ (run.reserved = 2 /\ run.pushes = 3) => Capacity(v) = 4

\* C8 is reached: the fifth append in a row has grown the vector to capacity 8
C8_Witness ==
    /\ last.op = "PushBack"
    /\ run = [reserved |-> 0, pushes |-> 5]
    /\ Capacity(vec["A"]) = 8

\* C9: a successful EmplaceBack (PushBack) of val on a vector that holds S
\* leaves S followed by val, with or without reallocation; the size grows by
\* one and the reference returned is to the new last element.
C9_EmplaceBackAppends ==
    \A x \in Alive : \A val \in Values, mf \in MovedKinds :
        LET v == vec[x]
            r == PushBack(v, M0, val, elemType, NoFault, mf)
        IN /\ r.out = "ok"
           /\ r.self.size = v.size + 1
           /\ r.ret = r.self.size - 1
           /\ Elems(r.m.heap, r.self) = Append(Elems(heap, v), val)

\* C9 is reached: an append has grown a vector of two elements
C9_Witness ==
    /\ last.op = "EmplaceBack" /\ last.out = "ok"
    /\ vec["A"].size = 3 /\ Capacity(vec["A"]) = 4

\* C10: a successful Emplace (Insert) of val at index i on a vector that holds
\* S leaves S[0..i), val, S[i..size), on the reallocating and on the in-place
\* path; the size grows by one, the iterator returned is at index i, and an
\* insertion at the end leaves what EmplaceBack leaves.
C10_EmplaceInserts ==
    \A x \in Alive : \A val \in Values, mf \in MovedKinds :
        LET v == vec[x]
            S == Elems(heap, v)
        IN \A i \in 0..v.size :
            LET r == Insert(v, M0, i, val, elemType, NoFault, mf)
                e == EmplaceBack(v, M0, val, elemType, NoFault, mf)
            IN /\ r.out = "ok"
               /\ r.self.size = v.size + 1
               /\ r.ret = i
               /\ Elems(r.m.heap, r.self)
                    = SubSeq(S, 1, i) \o <<val>> \o SubSeq(S, i + 1, v.size)
               /\ i = v.size => View(r.m.heap, r.self) = View(e.m.heap, e.self)

\* C10 is reached: an in-place insertion filled a vector of capacity 3 whose
\* three elements are not all equal
C10_Witness ==
    /\ last.op = "Emplace" /\ last.out = "ok"
    /\ vec["A"].size = 3 /\ Capacity(vec["A"]) = 3
    /\ Elems(heap, vec["A"]) = <<1, 0, 1>>

\* the slots of a block that hold an element
Live(slots) == {i \in 1..Len(slots) : slots[i] # Raw}

\* s without its element at index i (0-based)
Without(s, i) == SubSeq(s, 1, i) \o SubSeq(s, i + 2, Len(s))

\* C11: a successful Erase at index i (0 <= i < size) of a vector that holds S
\* leaves S without its element at i, the later elements one slot earlier in
\* order; the size is one less, the block and the capacity are the same, the
\* one slot destroyed is the former last, and the iterator returned is at i.
C11_EraseRemoves ==
    \A x \in Alive : \A mf \in MovedKinds :
        LET v == vec[x]
            S == Elems(heap, v)
        IN \A i \in 0..(v.size - 1) :
            LET r == Erase(v, M0, i, elemType, NoFault, mf)
            IN /\ r.out = "ok"
               /\ r.self.size = v.size - 1
               /\ r.self.data = v.data
               /\ r.ret = i
               /\ Elems(r.m.heap, r.self) = Without(S, i)
               /\ Live(SlotsOf(r.m.heap, r.self)) = Live(SlotsOf(heap, v)) \ {v.size}
               /\ r.m.ev = {}
               /\ \A b \in Blocks \ {v.data.buffer} : r.m.heap[b] = heap[b]

\* C11 is reached: an Erase before the end left two elements that differ
C11_Witness ==
    /\ last.op = "Erase" /\ last.out = "ok"
    /\ vec["A"].size = 2
    /\ Elems(heap, vec["A"]) = <<0, 1>>
    /\ SlotsOf(heap, vec["A"])[3] = Raw

\* C12: for every index i in [0, size] and every value, a successful Insert at
\* i followed by a successful Erase at i leaves the elements and the size the
\* vector had, whether the insertion reallocated or not.
C12_InsertEraseInverse ==
    \A x \in Alive : \A val \in ScriptValues, mf \in MovedKinds :
        LET v == vec[x]
        IN \A i \in 0..v.size :
            LET ins == Insert(v, M0, i, val, elemType, NoFault, mf)
                er == Erase(ins.self, ins.m, i, elemType, NoFault, mf)
            IN /\ ins.out = "ok" /\ er.out = "ok"
               /\ er.self.size = v.size
               /\ Elems(er.m.heap, er.self) = Elems(heap, v)

\* C12 is reached: a script came back to 1, 2, 3 by an insertion in place (the
\* capacity is still 4) and the erasure after it
C12_Witness ==
    /\ last.op = "Erase" /\ last.out = "ok"
    /\ Elems(heap, vec["A"]) = <<1, 2, 3>>
    /\ Capacity(vec["A"]) = 4

\* k value-initialized elements
Zeros(k) == [i \in 1..k |-> DefaultValue]

\* C13: Resize(n) of a vector that holds S: with n < size it leaves S[0..n),
\* the slots [n, size) destroyed, block and capacity as they were; with
\* n >= size it leaves S followed by n - size value-initialized elements, the
\* capacity grown to exactly n only when n > capacity; the size is n in both
\* cases.  When the construction of a new element throws, the size and the
\* elements are as before and no new element is left constructed; the size is
\* as before after any failure, and so are the elements unless a relocation by
\* move threw.  And the script push 1, 2, 3; insert 10 at 1; erase at 0;
\* Resize(5); Resize(2) gives [1,2,3], [1,10,2,3], [10,2,3], [10,2,3,0,0], [10,2].
C13_Resize ==
    LET v == vec["A"]
        S == Elems(heap, v)
        T == elemType
    IN /\ \A n \in 0..MaxScript, mf \in MovedKinds :
            LET r == Resize(v, M0, n, T, NoFault, mf)
            IN /\ r.out = "ok"
               /\ r.self.size = n
               /\ r.m.ev = {}
               /\ Live(SlotsOf(r.m.heap, r.self)) = 1..n
               /\ IF n < v.size
                  THEN /\ Elems(r.m.heap, r.self) = SubSeq(S, 1, n)
                       /\ r.self.data = v.data
                  ELSE /\ Elems(r.m.heap, r.self) = S \o Zeros(n - v.size)
                       /\ IF n > Capacity(v) THEN Capacity(r.self) = n
                          ELSE r.self.data = v.data
       /\ \A n \in (v.size + 1)..MaxScript, mf \in MovedKinds :
            /\ \A k \in 1..(n - v.size) :
                LET r == Resize(v, M0, n, T, [ph |-> "ctor", k |-> k], mf)
                IN /\ r.out = "throw"
                   /\ r.self.size = v.size
                   /\ Elems(r.m.heap, r.self) = S
                   /\ Live(SlotsOf(r.m.heap, r.self)) = 1..v.size
                   /\ r.m.ev = {}
            /\ \A f \in Faults({"alloc"}, {"reloc"}, v.size) \ {NoFault} :
                LET r == Resize(v, M0, n, T, f, mf)
                IN r.out = "throw"
                    => /\ r.self.size = v.size
                       /\ (f.ph = "alloc" \/ ~MoveMode(T))
                            => View(r.m.heap, r.self) = View(heap, v)
       /\ (last.op = "PushBack" /\ S = <<1, 2, 3>>)
            => LET a == Insert(v, M0, 1, 10, T, NoFault, "empty")
                   b == Erase(a.self, a.m, 0, T, NoFault, "empty")
                   c == Resize(b.self, b.m, 5, T, NoFault, "empty")
                   d == Resize(c.self, c.m, 2, T, NoFault, "empty")
               IN /\ Elems(a.m.heap, a.self) = <<1, 10, 2, 3>>
                  /\ Elems(b.m.heap, b.self) = <<10, 2, 3>>
                  /\ Elems(c.m.heap, c.self) = <<10, 2, 3, 0, 0>>
                  /\ Elems(d.m.heap, d.self) = <<10, 2>>

\* C13 is reached: a script that resized to 5 (the capacity is 5) and then to 2
\* holds 10, 2
C13_Witness ==
    /\ last.op = "Resize" /\ last.out = "ok"
    /\ Elems(heap, vec["A"]) = <<10, 2>>
    /\ Capacity(vec["A"]) = 5

\* C14: Reserve(c) with c <= capacity does nothing: the vector, the heap and
\* the block are as before and no element is constructed, moved or destroyed.
\* With c > capacity it succeeds with capacity exactly c in another block, the
\* size and the elements as before, each old element destroyed once and the
\* old block released (an object is lost with the block only if one lived in
\* it outside [0, size) before the call), every other block untouched.
C14_ReserveFrame ==
    \A x \in Alive : \A c \in 0..(MaxSize + 2), mf \in MovedKinds :
        LET v == vec[x]
            old == v.data.buffer
            r == Reserve(v, M0, c, elemType, NoFault, mf)
            new == r.self.data.buffer
        IN IF c <= Capacity(v) THEN r = Ok(v, M0, NoRet)
           ELSE /\ r.out = "ok"
                /\ Capacity(r.self) = c
                /\ r.self.size = v.size
                /\ Elems(r.m.heap, r.self) = Elems(heap, v)
                /\ new # 0 /\ new # old
                /\ Len(r.m.heap[new].slots) = c
                /\ Live(r.m.heap[new].slots) = 1..v.size
                /\ old # 0 => r.m.heap[old] = FreeBlock
                /\ r.m.ev \subseteq {"leak_elem"}
                /\ "leak_elem" \in r.m.ev => Live(SlotsOf(heap, v)) # 1..v.size
                /\ \A b \in Blocks \ {old, new} : r.m.heap[b] = heap[b]

\* C14 is reached: a Reserve moved the two elements of a vector to a block of
\* capacity 3
C14_Witness ==
    /\ last.op = "Reserve" /\ last.out = "ok" /\ ~last.kept
    /\ Capacity(vec["A"]) = 3
    /\ Elems(heap, vec["A"]) = <<1, 0>>

\* C15: Reserve relocates by move exactly when T's move constructor cannot
\* throw or T has no copy constructor, by copy otherwise.  So with a noexcept
\* move no relocation fails; with a T that is only movable a throw in the K-th
\* move leaves the K - 1 elements before it moved-from; and with copy, when
\* the K-th copy throws (K in 1..size), the vector keeps its size, capacity,
\* block and element values, every element constructed in the new block has
\* been destroyed once and the new block is released: the heap is as before.
C15_ReserveRollback ==
    \A x \in Alive : \A mf \in MovedKinds :
        LET v == vec[x]
            T == elemType
            old == v.data.buffer
        IN \A c \in (Capacity(v) + 1)..(MaxSize + 2), k \in 1..v.size :
            LET r == Reserve(v, M0, c, T, [ph |-> "reloc", k |-> k], mf)
            IN IF T.nothrowMove THEN r.out = "ok"
               ELSE /\ r.out = "throw"
                    /\ r.self = v
                    /\ r.m.ev = {}
                    /\ \A b \in Blocks \ {old} : r.m.heap[b] = heap[b]
                    /\ IF T.copyable THEN r.m.heap = heap
                       ELSE \A i \in 1..Capacity(v) :
                              r.m.heap[old].slots[i]
                                = IF i < k THEN MovedFrom(heap[old].slots[i], mf)
                                  ELSE heap[old].slots[i]

\* C15 is reached: a Reserve of a vector of two elements threw in a relocation
\* by copy and left the vector as it was
C15_Witness ==
    /\ last.op = "Reserve" /\ last.out = "throw" /\ last.ph = "reloc"
    /\ ~MoveMode(elemType)
    /\ last.kept
    /\ Elems(heap, vec["A"]) = <<1, 0>>
    /\ Capacity(vec["A"]) = 2

\* C16: when a relocation throws in a growth-triggered Emplace at index i,
\* whether in the prefix [0, i) or in the suffix [i, size), the call destroys
\* in the new block only slots that hold an element: it destroys no raw slot
\* (none twice, none never constructed), and it releases the new block with no
\* element left in it.
C16_GrowthCatchDestroysLive ==
    \A x \in Alive : \A val \in Values, mf \in MovedKinds :
        LET v == vec[x]
        IN Capacity(v) <= v.size
            => \A i \in 0..v.size, k \in 1..v.size :
                LET r == Emplace(v, M0, i, val, elemType, [ph |-> "reloc", k |-> k], mf)
                IN r.out = "throw"
                    => r.m.ev \cap {"destroy_raw", "leak_elem", "construct_over_live"} = {}

\* C16 is reached: a growth-triggered Emplace threw in a relocation
C16_Witness ==
    /\ last.op = "Emplace" /\ last.out # "ok" /\ last.ph = "reloc"
    /\ vec["A"].size = Capacity(vec["A"])

\* C17: B = A.  With A.size() <= B.capacity() B keeps its block and capacity
\* and nothing is allocated: the common prefix is assigned over, the slots
\* [sizeB, sizeA) are copy-constructed or the slots [sizeA, sizeB) destroyed
\* (no assignment to a raw slot, no construction over an element, no
\* destruction of a raw slot).  With A.size() > B.capacity() B gets a fresh
\* block of capacity A.size() and its old block is released.  Either way B
\* ends with A's size and elements in exactly the slots [0, sizeA), A is as it
\* was, and B = B changes nothing.
C17_CopyAssign ==
    \A b, a \in Alive :
        LET B == vec[b]
            A == vec[a]
            g == CopyAssign(B, A, M0, b = a, NoFault)
            new == g.self.data.buffer
        IN IF b = a THEN g = Ok(B, M0, NoRet)
           ELSE /\ g.out = "ok"
                /\ g.m.ev = {}
                /\ g.self.size = A.size
                /\ Elems(g.m.heap, g.self) = Elems(heap, A)
                /\ View(g.m.heap, A) = View(heap, A)
                /\ Live(SlotsOf(g.m.heap, g.self)) = 1..A.size
                /\ IF A.size <= Capacity(B)
                   THEN /\ g.self.data = B.data
                        /\ \A c \in Blocks \ {B.data.buffer} : g.m.heap[c] = heap[c]
                   ELSE /\ Capacity(g.self) = A.size
                        /\ new \notin {0, B.data.buffer, A.data.buffer}
                        /\ B.data.buffer # 0 => g.m.heap[B.data.buffer] = FreeBlock
                        /\ \A c \in Blocks \ {B.data.buffer, new} : g.m.heap[c] = heap[c]

\* C17 is reached: after a copy assignment both vectors hold the same element
\* in blocks of capacity 2, so the target kept its block (a fresh one would
\* have capacity 1)
C17_Witness ==
    /\ last.op = "operator=(const&)" /\ last.out = "ok" /\ ~last.kept
    /\ Alive = Vecs
    /\ \A x \in Vecs : Capacity(vec[x]) = 2 /\ Elems(heap, vec[x]) = <<1>>
    /\ vec["A"].data.buffer # vec["B"].data.buffer

\* C18: B = A with A.size() > B.capacity(): when the allocation of the
\* intermediate copy fails, or its K-th element copy throws (K in 1..sizeA),
\* the assignment throws and B keeps its block, size, capacity and elements, A
\* is unchanged, and the elements constructed in the intermediate copy are
\* destroyed and its block released: the heap is as before the call.
C18_CopyAssignFallbackAtomic ==
    \A b, a \in Alive :
        LET B == vec[b]
            A == vec[a]
        IN (b # a /\ A.size > Capacity(B))
            => \A f \in Faults({"alloc"}, {"ctor"}, A.size) \ {NoFault} :
                LET g == CopyAssign(B, A, M0, FALSE, f)
                IN /\ g.out = "throw"
                   /\ g.self = B
                   /\ g.m.heap = heap
                   /\ g.m.ev = {}

\* C18 is reached: a copy assignment from a vector of two elements to one of
\* smaller capacity threw (the in-place path constructs nothing when the
\* source is the larger vector, so the throw was in the intermediate copy)
C18_Witness ==
    /\ last.op = "operator=(const&)" /\ last.out = "throw"
    /\ last.ph \in {"alloc", "ctor"}
    /\ last.kept
    /\ \E b, a \in Alive :
        /\ Elems(heap, vec[a]) = <<1, 0>>
        /\ Capacity(vec[b]) < 2
        /\ vec[b].size = 1

\* C19: in-place Emplace (size < capacity) before the end: when the K-th
\* move-assignment of the backward shift throws, the element just constructed
\* at index size is destroyed before the exception leaves, so the vector keeps
\* its block, size and capacity, the slot at index size holds no element, the
\* slots [0, size) all hold one, no slot is destroyed twice and every other
\* slot is as the call found it: with the storage as C1 describes before the
\* call, exactly the slots [0, size) are live after it.  (The values in the
\* shifted range may differ.  A T whose moves are noexcept has no such failure.)
C19_ShiftFailureKeepsSize ==
    \A x \in Alive : \A val \in Values, mf \in MovedKinds :
        LET v == vec[x]
            before == SlotsOf(heap, v)
        IN Capacity(v) > v.size
            => \A i \in 0..(v.size - 2) : \A k \in 1..(v.size - 1 - i) :
                LET r == Emplace(v, M0, i, val, elemType, [ph |-> "shift", k |-> k], mf)
                    after == SlotsOf(r.m.heap, r.self)
                IN IF elemType.nothrowMove THEN r.out = "ok"
                   ELSE /\ r.out = "throw"
                        /\ r.self = v
                        /\ after[v.size + 1] = Raw
                        /\ 1..v.size \subseteq Live(after)
                        /\ Live(after) = Live(before) \ {v.size + 1}
                        /\ Live(before) = 1..v.size => Live(after) = 1..v.size
                        /\ r.m.ev \subseteq {"construct_over_live"}
                        /\ "construct_over_live" \in r.m.ev => before[v.size + 1] # Raw
                        /\ \A b \in Blocks \ {v.data.buffer} : r.m.heap[b] = heap[b]

\* C19 is reached: an in-place Emplace into a vector of two elements and
\* capacity 3 threw while shifting and left exactly two live slots
C19_Witness ==
    /\ last.op = "Emplace" /\ last.out = "throw" /\ last.ph = "shift"
    /\ vec["A"].size = 2 /\ Capacity(vec["A"]) = 3
    /\ Live(SlotsOf(heap, vec["A"])) = {1, 2}

\* C20: when the argument of PushBack / EmplaceBack / Insert / Emplace refers
\* to the element v[j] of the vector itself, as an lvalue or as an rvalue, the
\* call succeeds, reads no slot that holds no element, and the element it
\* inserts (the last one, or the one at the position) has the value v[j] had
\* before the call, on the reallocating and on the in-place path.
C20_AliasedArgument ==
    \A x \in Alive :
        LET v == vec[x]
            S == Elems(heap, v)
        IN \A arg \in Aliases(v, elemType) : \A mf \in MovedKinds :
            LET pb == EmplaceBackFrom(v, M0, arg, elemType, NoFault, mf)
            IN /\ pb.out = "ok"
               /\ "read_raw" \notin pb.m.ev
               /\ pb.self.size = v.size + 1
               /\ Elems(pb.m.heap, pb.self)[v.size + 1] = S[arg.index + 1]
               /\ \A i \in 0..v.size :
                    LET ins == EmplaceFrom(v, M0, i, arg, elemType, NoFault, mf)
                    IN /\ ins.out = "ok"
                       /\ "read_raw" \notin ins.m.ev
                       /\ ins.self.size = v.size + 1
                       /\ Elems(ins.m.heap, ins.self)[i + 1] = S[arg.index + 1]

\* C20 is reached: an insertion in place of an element of the vector itself
\* filled a vector of capacity 3
C20_Witness ==
    /\ last.op = "Insert(pos, v[j])" /\ last.out = "ok"
    /\ vec["A"].size = 3 /\ Capacity(vec["A"]) = 3
    /\ Elems(heap, vec["A"]) = <<1, 0, 1>>

====
